---- MODULE Spec2Model ----
(***************************************************************************)
(* A model of src/providers/seventv/SeventvEmotes.cpp: the 7TV emote       *)
(* collections of Chatterino.  Emote records and emote maps live on a heap  *)
(* of shared, reference-counted instances; a cell (Atomic<shared_ptr<const  *)
(* EmoteMap>>) holds one map; writer threads run parseEmotes, addEmote,     *)
(* updateEmote and removeEmote statement by statement; a reader thread      *)
(* takes snapshots of a cell.                                               *)
(***************************************************************************)
EXTENDS Integers, Sequences, FiniteSets, TLC

\* ------------------------------------------------------------------ bounds

\* Heap addresses handed out to emote records and to emote maps.
MaxRecs == 4
MaxMaps == 4
\* Calls (parseEmotes / addEmote / updateEmote / removeEmote) begun in a run.
MaxOps == 3
\* Files in the list given to createImageSet.
MaxFiles == 5

Null == 0
None == "<none>"

\* ------------------------------------------------------- program constants

\* std::array<ImagePtr, 4> sizes
NumSizes == 4

\* --------------------------------------------------------- pure functions

RECURSIVE Gcd(_, _)
Gcd(a, b) == IF b = 0 THEN a ELSE Gcd(b, a % b)

\* baseWidth / width as a reduced fraction <<numerator, denominator>>;
\* a zero width divides by zero (<<1, 0>>, the double +inf).
Ratio(n, d) ==
    IF d = 0 THEN <<1, 0>>
    ELSE LET g == Gcd(n, d) IN <<n \div g, d \div g>>

One == <<1, 1>>

\* Image::getEmpty()
EmptyImage == [empty |-> TRUE]

\* Image::fromUrl(url, scale, size): the url is built from the file's name,
\* which the model identifies with the file's (format, width).
ImageFromUrl(file, scale) ==
    [empty |-> FALSE, url |-> <<file.format, file.width>>,
     scale |-> scale, width |-> file.width]

\* ImageSet{}: three empty images.
EmptyImageSet ==
    [image1 |-> EmptyImage, image2 |-> EmptyImage, image3 |-> EmptyImage]

\* The lambda computing targetFormat in createImageSet.
targetFormat(files, allowAvif) ==
    IF ~allowAvif \/ Len(files) = 0 THEN "WEBP"
    ELSE IF Len(files) < 2 THEN files[1].format
    ELSE IF files[1].format = "AVIF" \/ files[2].format = "AVIF" THEN "AVIF"
    ELSE "WEBP"

\* The for loop of createImageSet over files[i..]: st.sizes are the slots
\* filled so far (nextSize = Len(st.sizes)), st.baseWidth the base width.
RECURSIVE FillSizes(_, _, _, _)
FillSizes(files, i, fmt, st) ==
    IF i > Len(files) \/ Len(st.sizes) >= NumSizes THEN st
    ELSE LET file == files[i] IN
         IF file.format # fmt THEN FillSizes(files, i + 1, fmt, st)
         ELSE LET scale == IF st.baseWidth > 0
                           THEN Ratio(st.baseWidth, file.width) ELSE One
                  bw    == IF st.baseWidth > 0
                           THEN st.baseWidth ELSE file.width
              IN FillSizes(files, i + 1, fmt,
                           [sizes |-> Append(st.sizes, ImageFromUrl(file, scale)),
                            baseWidth |-> bw])

\* The slots after the loop and the padding with Image::getEmpty().
PaddedSizes(files, allowAvif) ==
    LET st == FillSizes(files, 1, targetFormat(files, allowAvif),
                        [sizes |-> <<>>, baseWidth |-> 0])
        n  == Len(st.sizes)
    IN [k \in 1..NumSizes |-> IF k <= n THEN st.sizes[k] ELSE EmptyImage]

\* How many files matched the chosen format (nextSize after the loop).
NumMatched(files, allowAvif) ==
    Len(FillSizes(files, 1, targetFormat(files, allowAvif),
                  [sizes |-> <<>>, baseWidth |-> 0]).sizes)

\* Mutant of Largest: the 4x slot is taken whatever it holds.
LargestAlwaysFourth(sizes) == sizes[4]

\* Lines 570-574: the 4x version, or the 3x version when the 4x is empty.
Largest(sizes) == IF sizes[4].empty THEN sizes[3] ELSE sizes[4]

\* SeventvEmotes::createImageSet
createImageSet(files, allowAvif) ==
    IF NumMatched(files, allowAvif) = 0 THEN EmptyImageSet
    ELSE LET sizes   == PaddedSizes(files, allowAvif)
             largest == Largest(sizes)
         IN [image1 |-> sizes[1], image2 |-> sizes[2], image3 |-> largest]

\* SeventvEmoteSetKind and kindToString
Kinds == {"KGlobal", "KPersonal", "KChannel"}

kindToString(kind) ==
    CASE kind = "KGlobal" -> "Global"
      [] kind = "KPersonal" -> "Personal"
      [] kind = "KChannel" -> "Channel"
      [] OTHER -> ""

AuthorOrDeleted(author) == IF author = "" THEN "<deleted>" ELSE author

\* "%1<br>%2 7TV Emote<br>By: %3"
createTooltip(name, author, kind) ==
    [form |-> "plain", name |-> name, kind |-> kindToString(kind),
     by |-> AuthorOrDeleted(author)]

\* "%1<br>Alias of %2<br>%3 7TV Emote<br>By: %4"
createAliasedTooltip(name, baseName, author, kind) ==
    [form |-> "alias", name |-> name, base |-> baseName,
     kind |-> kindToString(kind), by |-> AuthorOrDeleted(author)]

\* makeConditionedOptional(condition, value)
makeConditionedOptional(cond, value) == IF cond THEN value ELSE None

\* The emote metadata of an entry: absent (an empty JSON object) or a record.
NoData == [absent |-> TRUE]

\* createEmote: the CreateEmoteResult built from an active emote and its data.
createEmote(activeEmote, emoteData, kind, allowAvif) ==
    LET emoteName     == activeEmote.name
        baseEmoteName == emoteData.name
        aliasedName   == emoteName # baseEmoteName
        tooltip       == IF aliasedName
                         THEN createAliasedTooltip(emoteName, baseEmoteName,
                                                   emoteData.owner, kind)
                         ELSE createTooltip(emoteName, emoteData.owner, kind)
        imageSet      == createImageSet(emoteData.files, allowAvif)
        emote == [name |-> emoteName, images |-> imageSet,
                  tooltip |-> tooltip, homePage |-> <<"7tv.app/emotes", activeEmote.id>>,
                  zeroWidth |-> activeEmote.zeroWidth, id |-> activeEmote.id,
                  author |-> emoteData.owner,
                  baseName |-> makeConditionedOptional(aliasedName, baseEmoteName)]
    IN [emote |-> emote, id |-> activeEmote.id, name |-> emoteName,
        hasImages |-> ~emote.images.image1.empty]

\* Mutant of checkEmoteVisibility: the test for the PERSONAL state tag of
\* lines 165-169 is missing.
checkEmoteVisibilityNoPersonal(emoteData, kind, showUnlisted) ==
    IF ~emoteData.listed /\ ~showUnlisted THEN FALSE
    ELSE ~emoteData.disallowed

\* checkEmoteVisibility
checkEmoteVisibility(emoteData, kind, showUnlisted) ==
    IF ~emoteData.listed /\ ~showUnlisted THEN FALSE
    ELSE IF kind = "KPersonal" /\ ~emoteData.personal THEN FALSE
    ELSE ~emoteData.disallowed

\* The rejection test shared by parseEmotes (line 213) and addEmote (line 388).
Rejected(entry, kind, showUnlisted) ==
    \/ entry.data = NoData
    \/ ~checkEmoteVisibility(entry.data, kind, showUnlisted)

\* Mutant of UpdatedBaseName: the old display name, whatever the old base
\* name.
UpdatedBaseNamePrior(oldEmote) == oldEmote.name

\* The base name createUpdatedEmote gives the replacement (line 183).
UpdatedBaseName(oldEmote) ==
    IF oldEmote.baseName # None THEN oldEmote.baseName ELSE oldEmote.name

\* Mutant of ToNonAliased: the new name is compared with the old display
\* name instead of the old base name.
ToNonAliasedByName(oldEmote, emoteName) ==
    oldEmote.baseName # None /\ emoteName = oldEmote.name

\* Lines 180-181: whether the update renames an alias back to its base name.
ToNonAliased(oldEmote, emoteName) ==
    oldEmote.baseName # None /\ emoteName = oldEmote.baseName

\* Mutant of createUpdatedEmote: the author is not carried over.
createUpdatedEmoteNoAuthor(oldEmote, emoteName, kind) ==
    LET toNonAliased == ToNonAliased(oldEmote, emoteName)
        baseName     == UpdatedBaseName(oldEmote)
    IN [name |-> emoteName, images |-> oldEmote.images,
        tooltip |-> IF toNonAliased
                    THEN createTooltip(emoteName, oldEmote.author, kind)
                    ELSE createAliasedTooltip(emoteName, baseName,
                                              oldEmote.author, kind),
        homePage |-> oldEmote.homePage, zeroWidth |-> oldEmote.zeroWidth,
        id |-> oldEmote.id, author |-> "",
        baseName |-> makeConditionedOptional(~toNonAliased, baseName)]

\* createUpdatedEmote: the value of the replacement record.
createUpdatedEmote(oldEmote, emoteName, kind) ==
    LET toNonAliased == ToNonAliased(oldEmote, emoteName)
        baseName     == UpdatedBaseName(oldEmote)
    IN [name |-> emoteName, images |-> oldEmote.images,
        tooltip |-> IF toNonAliased
                    THEN createTooltip(emoteName, oldEmote.author, kind)
                    ELSE createAliasedTooltip(emoteName, baseName,
                                              oldEmote.author, kind),
        homePage |-> oldEmote.homePage, zeroWidth |-> oldEmote.zeroWidth,
        id |-> oldEmote.id, author |-> oldEmote.author,
        baseName |-> makeConditionedOptional(~toNonAliased, baseName)]

\* ------------------------------------------------------------ emote maps

EmptyMap == [k \in {} |-> Null]

Range(f) == {f[k] : k \in DOMAIN f}

\* EmoteMap::operator[](key) = ptr
MapPut(m, key, ptr) ==
    [k \in DOMAIN m \cup {key} |-> IF k = key THEN ptr ELSE m[k]]

\* EmoteMap::erase(key)
MapErase(m, key) == [k \in DOMAIN m \ {key} |-> m[k]]

\* EmoteMap::findEmote(name, id): the keys of the records that match the
\* display name or the identifier; empty when the lookup misses (end()).
findEmote(m, heap, name, id) ==
    {k \in DOMAIN m : k = name \/ heap[m[k]].id = id}

\* ------------------------------------------------------------------ state

Ids == {"x", "y"}
Cells == {"c1", "c2"}
\* The cell that is SeventvEmotes::global_.
Global == "c2"
Writers == {"w1", "w2"}

VARIABLES
    recs,      \* heap of Emote instances: address -> value (live ones only)
    maps,      \* heap of EmoteMap instances: address -> (name -> address)
    cells,     \* Atomic<shared_ptr<const EmoteMap>>: cell -> map address
    cache,     \* cachedOrMake's static cache: id -> weakly held address
    settings,  \* showUnlisted (showUnlistedSevenTVEmotes), allowAvif,
               \* enableGlobal (enableSevenTVGlobalEmotes)
    wl,        \* each writer thread's position, locals and last result
    rd,        \* the reader thread: its snapshot, and the map and the records
               \* it read in it when it took it
    whole,     \* history: the complete edit each live map was published for
    tag,       \* history: alias round trip stage of a record, and its origin
    nOps,      \* calls begun so far
    img,       \* a call of createImageSet: its file list and what it returned
    gl         \* loadGlobalEmotes: the requests in flight and its history

vars == <<recs, maps, cells, cache, settings, wl, rd, whole, tag, nOps, img, gl>>

\* A writer's locals.  oldMap, umap and emote own strong references; shows
\* and took are the history of the entries handled so far in this call (the
\* showUnlisted setting each was checked under, and which were inserted);
\* the fields from outcome on are the history of the call, kept after it
\* returns (prev is the map its set() replaced in the cell).
IdleLocal ==
    [pc |-> "idle", op |-> "none", cell |-> "c1", kind |-> "KChannel",
     batch |-> <<>>, name |-> None, id |-> None, idx |-> 0,
     oldMap |-> Null, oldKey |-> None, umap |-> EmptyMap, emote |-> Null,
     shows |-> <<>>, took |-> {},
     outcome |-> "none", callCell |-> Null, retCell |-> Null,
     copied |-> FALSE, sets |-> 0, base |-> EmptyMap, prev |-> EmptyMap,
     oldVal |-> None, retVal |-> None, rejected |-> FALSE,
     unusable |-> FALSE, shared |-> "n/a", interned |-> FALSE,
     miss |-> FALSE]

\* The locals of a call that has just begun.
CallLocal(op, c, kind, batch, name, id) ==
    [IdleLocal EXCEPT !.op = op, !.cell = c, !.kind = kind, !.batch = batch,
                      !.name = name, !.id = id, !.idx = 1,
                      !.callCell = cells[c], !.retCell = cells[c]]

\* The locals after a return: the strong references are dropped, the
\* history is kept.
Returned(l, outcome, retVal, retCell) ==
    [l EXCEPT !.pc = "idle", !.oldMap = Null, !.umap = EmptyMap,
              !.emote = Null, !.batch = <<>>, !.idx = 0, !.id = None,
              !.shows = <<>>, !.took = {},
              !.outcome = outcome, !.retVal = retVal, !.retCell = retCell]

\* ------------------------------------------------- reference counting

\* EMPTY_EMOTE_MAP: the one shared empty map, owned by a static shared_ptr
\* for the whole run; its address is outside those make_shared hands out.
EMPTY_EMOTE_MAP == MaxMaps + 1

\* The maps some shared_ptr still owns.
LiveMaps(cs, r, ls) ==
    ({cs[c] : c \in Cells} \cup {r.snap} \cup {ls[w].oldMap : w \in Writers}
        \cup {EMPTY_EMOTE_MAP}) \ {Null}

\* The records some shared_ptr still owns: through a live map, a writer's
\* local map or a writer's local EmotePtr.
LiveRecs(lm, ms, ls) ==
    (UNION {Range(ms[a]) : a \in lm}
        \cup UNION {Range(ls[w].umap) : w \in Writers}
        \cup {ls[w].emote : w \in Writers}) \ {Null}

\* The heaps after a step: instances nobody owns are destroyed, and a
\* weak_ptr to a destroyed record is expired (lock() gives nullptr).
Collect(newRecs, newMaps, newCache, newWhole, newTag) ==
    LET lm == LiveMaps(cells', rd', wl')
        lr == LiveRecs(lm, newMaps, wl')
    IN /\ maps' = [a \in lm |-> newMaps[a]]
       /\ recs' = [a \in lr |-> newRecs[a]]
       /\ cache' = [i \in Ids |-> IF newCache[i] \in lr THEN newCache[i] ELSE Null]
       /\ whole' = [a \in lm |-> newWhole[a]]
       /\ tag' = [a \in lr |-> newTag[a]]

\* std::make_shared: an address no live instance has.
FreeRecs == (1..MaxRecs) \ DOMAIN recs
FreeMaps == (1..MaxMaps) \ DOMAIN maps
Lowest(S) == CHOOSE a \in S : \A b \in S : a <= b

\* f with x mapped to v, x possibly new to f.
Extend(f, x, v) == [y \in DOMAIN f \cup {x} |-> IF y = x THEN v ELSE f[y]]

\* The history of a record: how far along the alias round trip it is, and
\* whether it was handed out by cachedOrMake.
NoTag == [stage |-> 0, base |-> None, cached |-> FALSE]

\* ------------------------------------------------------------ InternCache

\* cachedOrMakeEmotePtr(emote, cache, mutex, id), under the mutex: the live
\* cached instance if there is one, else a new instance, weakly cached.
cachedOrMakeEmotePtr(emote, id, heap, cch) ==
    IF cch[id] # Null
    THEN [ptr |-> cch[id], recs |-> heap, cache |-> cch, made |-> FALSE]
    ELSE LET a == Lowest((1..MaxRecs) \ DOMAIN heap)
         IN [ptr |-> a, recs |-> Extend(heap, a, emote),
             cache |-> [cch EXCEPT ![id] = a], made |-> TRUE]

\* Mutant of cachedOrMake: the cache is never consulted, every call makes a
\* new instance and caches it.
cachedOrMakeNoLookup(emote, id, heap, cch) ==
    LET a == Lowest((1..MaxRecs) \ DOMAIN heap)
    IN [ptr |-> a, recs |-> Extend(heap, a, emote),
        cache |-> [cch EXCEPT ![id] = a], made |-> TRUE]

\* Mutant of cachedOrMake: a new instance is handed out without being put
\* into the cache.
cachedOrMakeNoInsert(emote, id, heap, cch) ==
    IF cch[id] # Null
    THEN [ptr |-> cch[id], recs |-> heap, cache |-> cch, made |-> FALSE]
    ELSE LET a == Lowest((1..MaxRecs) \ DOMAIN heap)
         IN [ptr |-> a, recs |-> Extend(heap, a, emote),
             cache |-> cch, made |-> TRUE]

\* cachedOrMake(emote, id): the static cache and its mutex.
cachedOrMake(emote, id, heap, cch) == cachedOrMakeEmotePtr(emote, id, heap, cch)

\* std::make_shared<const Emote>(emote): always a new instance.
makeShared(emote, heap) ==
    LET a == Lowest((1..MaxRecs) \ DOMAIN heap)
    IN [ptr |-> a, recs |-> Extend(heap, a, emote)]

\* ------------------------------------------------------ returning, set()

\* What a call hands to map.set() when it returns: nothing, or a new map.
NoSet == [set |-> FALSE]
SetTo(m) == [set |-> TRUE, map |-> m]

\* Writer w returns with locals l.  With arg = SetTo(m) it first publishes
\* std::make_shared<EmoteMap>(m) into its cell (Atomic::set); wh is the
\* complete edit the published map stands for.
Finish(w, l, outcome, retVal, arg, wh) ==
    IF arg.set
    THEN /\ FreeMaps # {}
         /\ LET a == Lowest(FreeMaps) IN
            /\ cells' = [cells EXCEPT ![l.cell] = a]
            /\ wl' = [wl EXCEPT ![w] = [Returned(l, outcome, retVal, a)
                                          EXCEPT !.sets = l.sets + 1,
                                                 !.prev = maps[cells[l.cell]]]]
            /\ UNCHANGED <<settings, rd, img, gl>>
            /\ Collect(recs, Extend(maps, a, arg.map), cache,
                       Extend(whole, a, wh), tag)
    ELSE /\ cells' = cells
         /\ wl' = [wl EXCEPT ![w] = Returned(l, outcome, retVal, cells[l.cell])]
         /\ UNCHANGED <<settings, rd, img, gl>>
         /\ Collect(recs, maps, cache, whole, tag)

\* ------------------------------------------------------------ parseEmotes

\* Mutant of ParseSkips: the hasImages test of lines 219-226 is missing.
ParseSkipsVisibilityOnly(entry, kind, st) ==
    Rejected(entry, kind, st.showUnlisted)

\* Lines 213-226: the entries the loop of parseEmotes skips.
ParseSkips(entry, kind, st) ==
    \/ Rejected(entry, kind, st.showUnlisted)
    \/ ~createEmote(entry, entry.data, kind, st.allowAvif).hasImages

\* Line 228: the key parseEmotes stores the shared record under.
ParseKey(result, ptr, heap) == result.name

\* A call of parseEmotes whose map is then set into cell c (lines 203-206,
\* as in the callback of loadGlobalEmotes).
BeginBuild(w, c, kind, batch) ==
    /\ wl[w].pc = "idle"
    /\ nOps < MaxOps
    /\ nOps' = nOps + 1
    /\ wl' = [wl EXCEPT ![w] = [CallLocal("build", c, kind, batch, None, None)
                                  EXCEPT !.pc = "parse"]]
    /\ UNCHANGED <<cells, settings, rd, img, gl>>
    /\ Collect(recs, maps, cache, whole, tag)

\* One iteration of the loop of parseEmotes (lines 208-229).
ParseStep(w) ==
    LET l == wl[w] IN
    /\ l.pc = "parse"
    /\ l.idx <= Len(l.batch)
    /\ UNCHANGED <<cells, settings, rd, nOps, img, gl>>
    /\ LET entry == l.batch[l.idx] IN
       IF ParseSkips(entry, l.kind, settings)
       THEN /\ wl' = [wl EXCEPT ![w].idx = l.idx + 1,
                                   ![w].shows = Append(l.shows, settings.showUnlisted)]
            /\ Collect(recs, maps, cache, whole, tag)
       ELSE LET result == createEmote(entry, entry.data, l.kind, settings.allowAvif)
                had    == cache[result.id] # Null
                          /\ recs[cache[result.id]] = result.emote
                old    == cache[result.id]
            IN /\ FreeRecs # {}
               /\ LET r == cachedOrMake(result.emote, result.id, recs, cache) IN
                  /\ wl' = [wl EXCEPT ![w].idx = l.idx + 1,
                                      ![w].shows = Append(l.shows, settings.showUnlisted),
                                      ![w].took = l.took \cup {l.idx},
                                      ![w].umap = MapPut(l.umap,
                                          ParseKey(result, r.ptr, r.recs), r.ptr),
                                      ![w].shared =
                                          IF ~had THEN l.shared
                                          ELSE IF r.ptr = old /\ l.shared # "fresh"
                                          THEN "same" ELSE "fresh"]
                  /\ Collect(r.recs, maps, r.cache, whole,
                             IF r.ptr \in DOMAIN tag THEN tag
                             ELSE Extend(tag, r.ptr, [NoTag EXCEPT !.cached = TRUE]))

\* parseEmotes returns and the built map is published (lines 231, 275-276).
ParseSet(w) ==
    LET l == wl[w] IN
    /\ l.pc = "parse"
    /\ l.idx > Len(l.batch)
    /\ nOps' = nOps
    /\ Finish(w, [l EXCEPT !.base = l.umap], "built", None, SetTo(l.umap), l.umap)

\* --------------------------------------------------------------- addEmote

\* Mutant of AddRejects: only absent metadata is turned away, the
\* visibility policy is not consulted.
AddRejectsAbsentOnly(entry, kind, st) == entry.data = NoData

\* Lines 387-391: the entries addEmote turns away before touching the map.
AddRejects(entry, kind, st) == Rejected(entry, kind, st.showUnlisted)

\* Mutant of AddHasImages: the hasImages test of line 396 is missing.
AddHasImagesAlways(result) == TRUE

\* Line 396: whether addEmote goes on with the record it created.
AddHasImages(result) == result.hasImages

\* Line 403: how addEmote materializes the record.
AddMaterialize(emote, id, heap, cch) ==
    LET r == makeShared(emote, heap)
    IN [ptr |-> r.ptr, recs |-> r.recs, cache |-> cch]

\* Mutant of AddPublished: a map holding the new emote only is published,
\* the copy of the current map is dropped.
AddPublishedOnlyNew(l) == [k \in {l.name} |-> l.emote]

\* Line 405: the map addEmote publishes.
AddPublished(l) == l.umap

\* addEmote is called and checks visibility (lines 382-391).
BeginAdd(w, c, kind, entry) ==
    /\ wl[w].pc = "idle"
    /\ nOps < MaxOps
    /\ nOps' = nOps + 1
    /\ LET l == [CallLocal("add", c, kind, <<entry>>, entry.name, entry.id)
                   EXCEPT !.rejected = Rejected(entry, kind, settings.showUnlisted),
                          !.shows = <<settings.showUnlisted>>]
       IN IF AddRejects(entry, kind, settings)
          THEN Finish(w, l, "nochange", None, NoSet, EmptyMap)
          ELSE /\ wl' = [wl EXCEPT ![w] = [l EXCEPT !.pc = "add_copy"]]
               /\ UNCHANGED <<cells, settings, rd, img, gl>>
               /\ Collect(recs, maps, cache, whole, tag)

\* addEmote copies the map, creates the emote and inserts it (lines 393-404).
AddCopy(w) ==
    LET l      == wl[w]
        entry  == l.batch[1]
        base   == maps[cells[l.cell]]
        result == createEmote(entry, entry.data, l.kind, settings.allowAvif)
        l1     == [l EXCEPT !.copied = TRUE, !.base = base,
                            !.unusable = (entry.data = NoData) \/
                                NumMatched(entry.data.files, settings.allowAvif) = 0]
    IN
    /\ l.pc = "add_copy"
    /\ nOps' = nOps
    /\ IF ~AddHasImages(result)
       THEN Finish(w, l1, "nochange", None, NoSet, EmptyMap)
       ELSE /\ FreeRecs # {}
            /\ LET had == cache[result.id] # Null
                          /\ recs[cache[result.id]] = result.emote
                   r   == AddMaterialize(result.emote, result.id, recs, cache)
               IN /\ wl' = [wl EXCEPT ![w] =
                              [l1 EXCEPT !.pc = "add_set", !.emote = r.ptr,
                                         !.took = {1},
                                         !.umap = MapPut(base, result.name, r.ptr),
                                         !.interned = (r.cache[result.id] = r.ptr),
                                         !.shared = IF ~had THEN "n/a"
                                                    ELSE IF r.ptr = cache[result.id]
                                                    THEN "same" ELSE "fresh"]]
                  /\ UNCHANGED <<cells, settings, rd, img, gl>>
                  /\ Collect(r.recs, maps, r.cache, whole,
                             IF r.ptr \in DOMAIN tag THEN tag
                             ELSE Extend(tag, r.ptr,
                                    IF result.emote.baseName # None
                                    THEN [NoTag EXCEPT !.stage = 1,
                                                       !.base = result.emote.baseName]
                                    ELSE NoTag))

\* addEmote publishes the edited copy and returns the emote (lines 405-407).
AddSet(w) ==
    LET l == wl[w] IN
    /\ l.pc = "add_set"
    /\ nOps' = nOps
    /\ Finish(w, l, "applied", recs[l.emote], SetTo(AddPublished(l)),
              MapPut(l.base, recs[l.emote].name, l.emote))

\* ------------------------------------------------------------ updateEmote

\* Mutant of CopiesBeforeLookup: every operation copies the map first.
CopiesBeforeLookupAlways(op) == TRUE

\* Whether an operation copies the map before it looks the emote up:
\* removeEmote does (lines 437-438), updateEmote looks up in the shared map
\* and copies after a hit (lines 414-422).
CopiesBeforeLookup(op) == op = "remove"

\* Line 423: the key updateEmote erases from its copy.
UpdErased(oldEmote, oldKey) == oldEmote.name

\* Mutant of UpdPublished: the copy is published between the erase of line
\* 423 and the insert of line 426.
UpdPublishedBeforeInsert(l) == MapErase(l.umap, l.name)

\* Line 427: the map updateEmote publishes.
UpdPublished(l) == l.umap

\* The history tag of the replacement of a record tagged t, renamed to name.
NextTag(t, name) ==
    IF t.stage = 1 /\ name = t.base
    THEN [NoTag EXCEPT !.stage = 2, !.base = t.base]
    ELSE IF t.stage = 2 /\ name # t.base
    THEN [NoTag EXCEPT !.stage = 3, !.base = t.base]
    ELSE NoTag

\* updateEmote is called and looks the emote up (lines 410-419).
BeginUpdate(w, c, kind, name, id) ==
    /\ wl[w].pc = "idle"
    /\ nOps < MaxOps
    /\ nOps' = nOps + 1
    /\ LET m    == maps[cells[c]]
           hits == findEmote(m, recs, name, id)
           l    == [CallLocal("update", c, kind, <<>>, name, id)
                      EXCEPT !.miss = (hits = {}),
                             !.copied = CopiesBeforeLookup("update")]
       IN IF hits = {}
          THEN Finish(w, l, "nochange", None, NoSet, EmptyMap)
          ELSE /\ \E k \in hits :
                    wl' = [wl EXCEPT ![w] =
                              [l EXCEPT !.pc = "upd_copy", !.oldMap = cells[c],
                                        !.oldKey = k, !.oldVal = recs[m[k]]]]
               /\ UNCHANGED <<cells, settings, rd, img, gl>>
               /\ Collect(recs, maps, cache, whole, tag)

\* updateEmote copies the map, erases the old key and inserts the
\* replacement (lines 421-426).
UpdCopy(w) ==
    LET l        == wl[w]
        base     == maps[cells[l.cell]]
        oldPtr   == maps[l.oldMap][l.oldKey]
        oldEmote == recs[oldPtr]
        erased   == MapErase(base, UpdErased(oldEmote, l.oldKey))
        emote    == createUpdatedEmote(oldEmote, l.name, l.kind)
    IN
    /\ l.pc = "upd_copy"
    /\ FreeRecs # {}
    /\ LET r == makeShared(emote, recs) IN
       /\ wl' = [wl EXCEPT ![w] =
                    [l EXCEPT !.pc = "upd_set", !.copied = TRUE, !.base = base,
                              !.emote = r.ptr,
                              !.umap = MapPut(erased, emote.name, r.ptr)]]
       /\ UNCHANGED <<cells, settings, rd, nOps, img, gl>>
       /\ Collect(r.recs, maps, cache, whole,
                  Extend(tag, r.ptr, NextTag(tag[oldPtr], l.name)))

\* updateEmote publishes the edited copy and returns the replacement
\* (lines 427-429).
UpdSet(w) ==
    LET l == wl[w] IN
    /\ l.pc = "upd_set"
    /\ nOps' = nOps
    /\ Finish(w, l, "applied", recs[l.emote], SetTo(UpdPublished(l)),
              MapPut(MapErase(l.base, l.oldVal.name),
                     recs[l.emote].name, l.emote))

\* ------------------------------------------------------------ removeEmote

\* Mutant of RemMissArg: the untouched copy is published on a miss.
RemMissArgCopy(copy) == SetTo(copy)

\* Lines 439-444: what removeEmote hands to map.set() when the lookup in
\* its copy misses: nothing, the copy is discarded.
RemMissArg(copy) == NoSet

\* removeEmote is called, copies the map and looks the emote up in the
\* copy (lines 432-446).
BeginRemove(w, c, name, id) ==
    /\ wl[w].pc = "idle"
    /\ nOps < MaxOps
    /\ nOps' = nOps + 1
    /\ LET base == maps[cells[c]]
           hits == findEmote(base, recs, name, id)
           l    == [CallLocal("remove", c, "KChannel", <<>>, name, id)
                      EXCEPT !.copied = CopiesBeforeLookup("remove"),
                             !.base = base, !.miss = (hits = {})]
       IN IF hits = {}
          THEN Finish(w, l, "nochange", None, RemMissArg(base), base)
          ELSE /\ \E k \in hits :
                    wl' = [wl EXCEPT ![w] =
                              [l EXCEPT !.pc = "rem_set", !.oldKey = k,
                                        !.oldVal = recs[base[k]],
                                        !.emote = base[k],
                                        !.umap = MapErase(base, k)]]
               /\ UNCHANGED <<cells, settings, rd, img, gl>>
               /\ Collect(recs, maps, cache, whole, tag)

\* removeEmote publishes the edited copy and returns the removed emote
\* (lines 447-449).
RemSet(w) ==
    LET l == wl[w] IN
    /\ l.pc = "rem_set"
    /\ nOps' = nOps
    /\ Finish(w, l, "applied", recs[l.emote], SetTo(l.umap),
              MapErase(l.base, l.oldKey))

\* ---------------------------------------------------------------- readers

\* globalEmotes() / Atomic::get(): the reader takes a snapshot of cell c.
Read(c) ==
    /\ rd' = [snap |-> cells[c], seen |-> maps[cells[c]],
              vals |-> [k \in DOMAIN maps[cells[c]] |-> recs[maps[cells[c]][k]]]]
    /\ rd' # rd
    /\ UNCHANGED <<cells, settings, wl, nOps, img, gl>>
    /\ Collect(recs, maps, cache, whole, tag)

\* The reader drops its snapshot.
Release ==
    /\ rd.snap # Null
    /\ rd' = [snap |-> Null, seen |-> EmptyMap, vals |-> EmptyMap]
    /\ UNCHANGED <<cells, settings, wl, nOps, img, gl>>
    /\ Collect(recs, maps, cache, whole, tag)

\* --------------------------------------------------------------- settings

\* showUnlistedSevenTVEmotes changes.
SetShowUnlisted(b) ==
    /\ settings.showUnlisted # b
    /\ settings' = [settings EXCEPT !.showUnlisted = b]
    /\ UNCHANGED <<cells, wl, rd, nOps, img, gl>>
    /\ Collect(recs, maps, cache, whole, tag)

\* The allowAvifImages handler of ALLOW_AVIF_IMAGES (lines 52-55).
SetAllowAvif(b) ==
    /\ settings.allowAvif # b
    /\ settings' = [settings EXCEPT !.allowAvif = b]
    /\ UNCHANGED <<cells, wl, rd, nOps, img, gl>>
    /\ Collect(recs, maps, cache, whole, tag)

\* -------------------------------------------------------- loadGlobalEmotes

\* No request in flight, nothing loaded yet.  inflight counts the getEmoteSet
\* requests not answered yet; the other fields are history: the calls of
\* loadGlobalEmotes, the requests issued, the error callbacks run, the last
\* of these events and the map global_ held just before it.
GlIdle ==
    [inflight |-> 0, loads |-> 0, issued |-> 0, errors |-> 0,
     last |-> "none", before |-> Null]

\* Mutant of LoadDisabled: the setting is not consulted.
LoadDisabledNever(st) == FALSE

\* Line 258: whether loadGlobalEmotes takes the branch for disabled global
\* emotes.
LoadDisabled(st) == ~st.enableGlobal

\* enableSevenTVGlobalEmotes changes.
SetEnableGlobal(b) ==
    /\ settings.enableGlobal # b
    /\ settings' = [settings EXCEPT !.enableGlobal = b]
    /\ UNCHANGED <<cells, wl, rd, nOps, img, gl>>
    /\ Collect(recs, maps, cache, whole, tag)

\* loadGlobalEmotes (lines 256-267): with global emotes disabled it sets
\* EMPTY_EMOTE_MAP and returns; otherwise it issues the getEmoteSet request
\* and returns, the callbacks run later.
LoadGlobalEmotes ==
    /\ nOps < MaxOps
    /\ nOps' = nOps + 1
    /\ UNCHANGED <<settings, wl, rd, img>>
    /\ IF LoadDisabled(settings)
       THEN /\ cells' = [cells EXCEPT ![Global] = EMPTY_EMOTE_MAP]
            /\ gl' = [gl EXCEPT !.loads = gl.loads + 1, !.last = "load_off",
                                !.before = cells[Global]]
       ELSE /\ cells' = cells
            /\ gl' = [gl EXCEPT !.loads = gl.loads + 1, !.last = "load_on",
                                !.before = cells[Global],
                                !.inflight = gl.inflight + 1,
                                !.issued = gl.issued + 1]
    /\ Collect(recs, maps, cache, whole, tag)

\* The success callback of a request in flight (lines 268-272): it calls
\* parseEmotes on the emotes of the answer, with kind Global; ParseStep runs
\* the loop and ParseSet is the setGlobalEmotes of lines 275-276.
FetchSuccess(w, batch) ==
    /\ gl.inflight > 0
    /\ wl[w].pc = "idle"
    /\ gl' = [gl EXCEPT !.inflight = gl.inflight - 1, !.last = "success",
                        !.before = cells[Global]]
    /\ wl' = [wl EXCEPT ![w] = [CallLocal("build", Global, "KGlobal", batch,
                                          None, None) EXCEPT !.pc = "parse"]]
    /\ UNCHANGED <<cells, settings, rd, nOps, img>>
    /\ Collect(recs, maps, cache, whole, tag)

\* The error callback of a request in flight (lines 278-281): a warning is
\* logged, nothing else.
FetchError ==
    /\ gl.inflight > 0
    /\ gl' = [gl EXCEPT !.inflight = gl.inflight - 1, !.last = "error",
                        !.errors = gl.errors + 1, !.before = cells[Global]]
    /\ UNCHANGED <<cells, settings, wl, rd, nOps, img>>
    /\ Collect(recs, maps, cache, whole, tag)

\* ----------------------------------------------------------- createImageSet

\* No call of createImageSet under way.
ImgIdle ==
    [pc |-> "idle", files |-> <<>>, allowAvif |-> TRUE, fmt |-> None,
     n |-> 0, slots |-> <<>>, out |-> EmptyImageSet]

\* createImageSet(emoteData) is called with the file list img.files and
\* returns: fmt is the target format, n the slots the loop filled, slots the
\* array after the padding, out the ImageSet returned.
CallCreateImageSet ==
    /\ img.pc = "call"
    /\ img' = [img EXCEPT !.pc = "done",
                          !.allowAvif = settings.allowAvif,
                          !.fmt = targetFormat(img.files, settings.allowAvif),
                          !.n = NumMatched(img.files, settings.allowAvif),
                          !.slots = PaddedSizes(img.files, settings.allowAvif),
                          !.out = createImageSet(img.files, settings.allowAvif)]
    /\ UNCHANGED <<cells, settings, wl, rd, nOps, gl>>
    /\ Collect(recs, maps, cache, whole, tag)

\* ------------------------------------------------------------------ inputs

Names == {"a", "b", "c"}

File(fmt, w) == [format |-> fmt, width |-> w]

FilesNone == <<>>
FilesWebp == <<File("WEBP", 1), File("WEBP", 2)>>
FilesPng == <<File("PNG", 1), File("PNG", 2)>>

Data(base, files, listed) ==
    [name |-> base, owner |-> "u", files |-> files, listed |-> listed,
     personal |-> FALSE, disallowed |-> FALSE]

Entry(id, name, data) ==
    [id |-> id, name |-> name, zeroWidth |-> FALSE, data |-> data]

Good(id, name) == Entry(id, name, Data("a", FilesWebp, TRUE))

AddEntries ==
    {Good(i, n) : i \in Ids, n \in {"a", "b"}}
        \cup {Entry("x", "a", d) : d \in {NoData, Data("a", FilesNone, TRUE),
                                         Data("a", FilesPng, TRUE),
                                         Data("a", FilesWebp, FALSE)}}

BuildEntries == {Good("x", "a"), Good("x", "b"), Entry("y", "a", Data("a", FilesNone, TRUE))}

Batches ==
    {<<>>} \cup {<<e>> : e \in BuildEntries}
           \cup {<<e, f>> : e \in BuildEntries, f \in BuildEntries}

\* ------------------------------------------------------------------- specs

\* SeventvEmotes(): every cell starts with an empty map of its own.
Init ==
    /\ recs = [a \in {} |-> Null]
    /\ maps = [a \in {1, 2, EMPTY_EMOTE_MAP} |-> EmptyMap]
    /\ cells = [c \in Cells |-> IF c = "c1" THEN 1 ELSE 2]
    /\ cache = [i \in Ids |-> Null]
    /\ settings = [showUnlisted |-> FALSE, allowAvif |-> TRUE,
                   enableGlobal |-> TRUE]
    /\ wl = [w \in Writers |-> IdleLocal]
    /\ rd = [snap |-> Null, seen |-> EmptyMap, vals |-> EmptyMap]
    /\ whole = [a \in {1, 2, EMPTY_EMOTE_MAP} |-> EmptyMap]
    /\ tag = [a \in {} |-> NoTag]
    /\ nOps = 0
    /\ img = ImgIdle
    /\ gl = GlIdle

\* The steps of a call in progress.
Step(w) ==
    \/ ParseStep(w) \/ ParseSet(w)
    \/ AddCopy(w) \/ AddSet(w)
    \/ UpdCopy(w) \/ UpdSet(w)
    \/ RemSet(w)

\* Serialized writers: one writer thread makes every call.
Next ==
    \/ \E c \in Cells, b \in Batches : BeginBuild("w1", c, "KChannel", b)
    \/ \E e \in AddEntries : BeginAdd("w1", "c1", "KChannel", e)
    \/ \E n \in Names, i \in Ids : BeginUpdate("w1", "c1", "KChannel", n, i)
    \/ \E n \in Names, i \in Ids : BeginRemove("w1", "c1", n, i)
    \/ \E b \in BOOLEAN : SetShowUnlisted(b)
    \/ Step("w1")

Spec == Init /\ [][Next]_vars

\* Entries for the visibility policy: every combination of listed, the
\* PERSONAL state tag and the ContentTwitchDisallowed flag, and absent
\* metadata, alone or next to an entry that every policy lets through.
VisData(listed, personal, disallowed) ==
    [Data("a", FilesWebp, listed) EXCEPT !.personal = personal,
                                         !.disallowed = disallowed]

VisEntries ==
    {Entry("x", "a", NoData)}
        \cup {Entry("x", "a", VisData(l, p, d)) :
                 l \in BOOLEAN, p \in BOOLEAN, d \in BOOLEAN}

VisGood == Entry("y", "b", VisData(TRUE, TRUE, FALSE))

VisBatches ==
    {<<e>> : e \in VisEntries} \cup {<<e, VisGood>> : e \in VisEntries}
        \cup {<<VisGood, e>> : e \in VisEntries}

VisKinds == {"KChannel", "KPersonal"}

NextVis ==
    \/ \E k \in VisKinds, b \in VisBatches : BeginBuild("w1", "c1", k, b)
    \/ \E k \in VisKinds, e \in VisEntries : BeginAdd("w1", "c1", k, e)
    \/ \E b \in BOOLEAN : SetShowUnlisted(b)
    \/ ParseStep("w1")
    \/ ParseSet("w1")
    \/ AddCopy("w1")
    \/ AddSet("w1")

SpecVis == Init /\ [][NextVis]_vars

\* createImageSet on every file list of up to MaxFiles files: a file has one
\* of three formats and its width is its position in the list, or 0 when the
\* JSON gives no width (toDouble() of a missing value).
ImgFormats == {"AVIF", "WEBP", "PNG"}

\* The list of n files with the formats f, the files marked in z without a
\* width.
ImgFileList(n, f, z) == [i \in 1..n |-> File(f[i], IF z[i] THEN 0 ELSE i)]

InitImg ==
    /\ recs = [a \in {} |-> Null]
    /\ maps = [a \in {1, 2, EMPTY_EMOTE_MAP} |-> EmptyMap]
    /\ cells = [c \in Cells |-> IF c = "c1" THEN 1 ELSE 2]
    /\ cache = [i \in Ids |-> Null]
    /\ settings = [showUnlisted |-> FALSE, allowAvif |-> TRUE,
                   enableGlobal |-> TRUE]
    /\ wl = [w \in Writers |-> IdleLocal]
    /\ rd = [snap |-> Null, seen |-> EmptyMap, vals |-> EmptyMap]
    /\ whole = [a \in {1, 2, EMPTY_EMOTE_MAP} |-> EmptyMap]
    /\ tag = [a \in {} |-> NoTag]
    /\ nOps = 0
    /\ \E n \in 0..MaxFiles :
          \E f \in [1..n -> ImgFormats], z \in [1..n -> BOOLEAN] :
             img = [ImgIdle EXCEPT !.pc = "call", !.files = ImgFileList(n, f, z)]
    /\ gl = GlIdle

NextImg ==
    \/ \E b \in BOOLEAN : SetAllowAvif(b)
    \/ CallCreateImageSet

SpecImg == InitImg /\ [][NextImg]_vars

\* Global emotes: loadGlobalEmotes is called and the setting changes at any
\* time, every request in flight is answered by its success or its error
\* callback, and a reader takes snapshots of global_.
GlobalBatches == {<<>>, <<Good("x", "a")>>, <<Good("x", "a"), Good("y", "b")>>}

NextGlobal ==
    \/ \E b \in BOOLEAN : SetEnableGlobal(b)
    \/ LoadGlobalEmotes
    \/ \E b \in GlobalBatches : FetchSuccess("w1", b)
    \/ FetchError
    \/ ParseStep("w1")
    \/ ParseSet("w1")
    \/ Read(Global)
    \/ Release

SpecGlobal == Init /\ [][NextGlobal]_vars

\* Concurrent writers and a reader on one cell.
ConcEntries == {Good("x", "a"), [Good("y", "b") EXCEPT !.zeroWidth = TRUE]}
ConcBatches == {<<>>, <<Good("x", "b")>>}

NextConc ==
    \/ \E w \in Writers, b \in ConcBatches : BeginBuild(w, "c1", "KChannel", b)
    \/ \E w \in Writers, e \in ConcEntries : BeginAdd(w, "c1", "KChannel", e)
    \/ \E w \in Writers, n \in {"a", "b"} : BeginUpdate(w, "c1", "KChannel", n, "x")
    \/ \E w \in Writers, n \in {"a", "b"} : BeginRemove(w, "c1", n, "y")
    \/ \E w \in Writers : Step(w)
    \/ Read("c1")
    \/ Release

SpecConc == Init /\ [][NextConc]_vars

\* Serialized writers and a reader on one cell: one writer thread makes the
\* addEmote, updateEmote and removeEmote calls, the reader takes and drops
\* snapshots at any time.
NextSer ==
    \/ \E e \in ConcEntries : BeginAdd("w1", "c1", "KChannel", e)
    \/ \E n \in Names, i \in Ids : BeginUpdate("w1", "c1", "KChannel", n, i)
    \/ \E n \in {"a", "b"}, i \in Ids : BeginRemove("w1", "c1", n, i)
    \/ AddCopy("w1")
    \/ AddSet("w1")
    \/ UpdCopy("w1")
    \/ UpdSet("w1")
    \/ RemSet("w1")
    \/ Read("c1")
    \/ Release

SpecSer == Init /\ [][NextSer]_vars

\* ------------------------------------------------------------- properties

\* Every collection: the live maps and the maps writers are still building.
Collections == {maps[a] : a \in DOMAIN maps} \cup {wl[w].umap : w \in Writers}

\* C1: reader isolation.  The map in a cell and the reader's snapshot are
\* always maps that were published as a whole: their content is the
\* complete edit they were published for (or the initial empty map), and a
\* snapshot still has the content the reader saw when it took it, whatever
\* was written since.
C1_ReaderIsolation ==
    /\ \A c \in Cells : maps[cells[c]] = whole[cells[c]]
    /\ rd.snap # Null =>
          /\ maps[rd.snap] = rd.seen
          /\ maps[rd.snap] = whole[rd.snap]

\* C1 witness: the reader holds a non-empty snapshot taken before an update
\* that has completed since and replaced the cell's map.
C1_Witness ==
    /\ rd.snap # Null
    /\ rd.seen # EmptyMap
    /\ rd.snap # cells["c1"]
    /\ \E w \in Writers :
          /\ wl[w].pc = "idle" /\ wl[w].op = "update"
          /\ wl[w].outcome = "applied"
          /\ wl[w].retCell = cells["c1"]
          /\ wl[w].callCell = rd.snap

\* C2: in every collection, every record's name is the key it is stored
\* under.
C2_NameEqualsKey ==
    \A m \in Collections : \A k \in DOMAIN m : recs[m[k]].name = k

\* C3: no collection holds a record whose primary image is empty.
C3_NoImagelessRecord ==
    \A m \in Collections : \A k \in DOMAIN m : ~recs[m[k]].images.image1.empty

\* C3 witness: an entry with no usable image was offered to addEmote, which
\* returned, and the cell holds a non-empty map.
C3_Witness ==
    /\ wl["w1"].op = "add" /\ wl["w1"].pc = "idle" /\ wl["w1"].unusable
    /\ maps[cells["c1"]] # EmptyMap

\* C4: dedup.  Whenever parseEmotes creates a record for an identifier whose
\* interned record is still strongly referenced and is identity-equivalent,
\* it stores that very instance, not a new one.
C4_Dedup ==
    \A w \in Writers : wl[w].op = "build" => wl[w].shared # "fresh"

\* C4 witness: a build has returned that stored an instance interned by an
\* earlier build and still referenced by the other cell's collection.
C4_Witness ==
    /\ wl["w1"].op = "build" /\ wl["w1"].pc = "idle"
    /\ wl["w1"].shared = "same"
    /\ \E k \in DOMAIN maps[cells["c1"]] : \E j \in DOMAIN maps[cells["c2"]] :
          maps[cells["c1"]][k] = maps[cells["c2"]][j]

\* C5: the record addEmote inserts is the instance the intern cache holds
\* for its identifier, and it is the live identity-equivalent instance when
\* there is one.
C5_AddInterns ==
    \A w \in Writers :
       (wl[w].op = "add" /\ wl[w].outcome = "applied") =>
          /\ wl[w].interned
          /\ wl[w].shared # "fresh"

\* C6: rejection idempotence.  An addEmote whose entry has no metadata or
\* fails the visibility policy returns "no change" at once, publishes
\* nothing, and the cell holds the very map it held before the call.
C6_RejectedAddPublishesNothing ==
    \A w \in Writers :
       (wl[w].op = "add" /\ wl[w].rejected) =>
          /\ wl[w].pc = "idle"
          /\ wl[w].outcome = "nochange"
          /\ wl[w].sets = 0
          /\ wl[w].retCell = wl[w].callCell
          /\ cells[wl[w].cell] = wl[w].callCell

\* C6 witness: a rejected addEmote has returned on a non-empty collection.
C6_Witness ==
    /\ wl["w1"].op = "add" /\ wl["w1"].rejected /\ wl["w1"].pc = "idle"
    /\ maps[cells["c1"]] # EmptyMap

\* C7: unusable rejection.  An addEmote whose entry passes the visibility
\* checks but has no file of the chosen format returns "no change", inserts
\* nothing and publishes nothing.
C7_UnusableAddPublishesNothing ==
    \A w \in Writers :
       (wl[w].op = "add" /\ ~wl[w].rejected /\ wl[w].unusable) =>
          /\ wl[w].pc = "idle"
          /\ wl[w].outcome = "nochange"
          /\ wl[w].sets = 0
          /\ cells[wl[w].cell] = wl[w].callCell
          /\ maps[cells[wl[w].cell]] = wl[w].base

\* C7 witness: such an addEmote has returned on a non-empty collection.
C7_Witness ==
    /\ wl["w1"].op = "add" /\ ~wl["w1"].rejected /\ wl["w1"].unusable
    /\ wl["w1"].pc = "idle"
    /\ maps[cells["c1"]] # EmptyMap

\* C8: lookup miss.  An updateEmote or removeEmote whose name and identifier
\* match no record of the current collection returns "no change", publishes
\* nothing, and the cell holds the very map it held before the call.
C8_LookupMiss ==
    \A w \in Writers :
       (wl[w].op \in {"update", "remove"} /\ wl[w].miss) =>
          /\ wl[w].pc = "idle"
          /\ wl[w].outcome = "nochange"
          /\ wl[w].sets = 0
          /\ wl[w].retCell = wl[w].callCell
          /\ cells[wl[w].cell] = wl[w].callCell

\* C8 witness: a removeEmote has missed on a non-empty collection.
C8_Witness ==
    /\ wl["w1"].op = "remove" /\ wl["w1"].miss /\ wl["w1"].pc = "idle"
    /\ maps[cells["c1"]] # EmptyMap

\* C9: alias round trip.  A record added under an alias (stage 1) and then
\* renamed to its base name (stage 2) has no base name and the plain
\* tooltip; renamed again to any other name (stage 3), its base name is the
\* original base name and its tooltip is the aliased form naming it.
C9_AliasRoundTrip ==
    \A a \in DOMAIN recs :
       /\ tag[a].stage = 2 =>
             /\ recs[a].name = tag[a].base
             /\ recs[a].baseName = None
             /\ recs[a].tooltip.form = "plain"
             /\ recs[a].tooltip.name = tag[a].base
       /\ tag[a].stage = 3 =>
             /\ recs[a].name # tag[a].base
             /\ recs[a].baseName = tag[a].base
             /\ recs[a].tooltip.form = "alias"
             /\ recs[a].tooltip.base = tag[a].base
             /\ recs[a].tooltip.name = recs[a].name

\* C9 witness: a record has made the whole round trip and is published.
C9_Witness ==
    \E k \in DOMAIN maps[cells["c1"]] : tag[maps[cells["c1"]][k]].stage = 3

\* C10 as claimed: the replacement's base name is none when the update
\* resolves to base, and otherwise the old record's prior display name.
C10_BaseIsPriorName ==
    \A w \in Writers :
       (wl[w].op = "update" /\ wl[w].outcome = "applied") =>
          wl[w].retVal.baseName =
             IF wl[w].oldVal.baseName # None /\ wl[w].name = wl[w].oldVal.baseName
             THEN None ELSE wl[w].oldVal.name

\* C10 amended: the replacement's base name is none when the update
\* resolves to base; otherwise it is the old record's base name when the
\* old record has one, and the old record's prior display name when not.
C10_BaseNameRule ==
    \A w \in Writers :
       (wl[w].op = "update" /\ wl[w].outcome = "applied") =>
          wl[w].retVal.baseName =
             IF wl[w].oldVal.baseName # None /\ wl[w].name = wl[w].oldVal.baseName
             THEN None
             ELSE IF wl[w].oldVal.baseName # None THEN wl[w].oldVal.baseName
             ELSE wl[w].oldVal.name

\* C10 witness: an alias was renamed to a name other than its base name.
C10_Witness ==
    /\ wl["w1"].op = "update" /\ wl["w1"].outcome = "applied"
    /\ wl["w1"].oldVal.baseName # None
    /\ wl["w1"].name # wl["w1"].oldVal.baseName
    /\ wl["w1"].name # wl["w1"].oldVal.name

\* The files of the list given to createImageSet that carry the format it
\* chose, in order of appearance.
ImgMatched == SelectSeq(img.files, LAMBDA f : f.format = img.fmt)

\* C11: format choice.  The chosen format is WEBP when AVIF is not allowed or
\* the list is empty; otherwise it is AVIF iff one of the first two entries
\* (or the only entry) names AVIF, and WEBP in every other case, also for a
\* list of one entry that names some other format.
C11_FormatChoice ==
    img.pc = "done" =>
       img.fmt =
          IF ~img.allowAvif \/ Len(img.files) = 0 THEN "WEBP"
          ELSE IF \E i \in 1..Len(img.files) :
                     i <= 2 /\ img.files[i].format = "AVIF"
          THEN "AVIF" ELSE "WEBP"

\* C12: variant extraction.  The slots hold, in order of appearance, the
\* first (at most four) files of the chosen format; the first has scale 1
\* and every later one the scale W0 / width, W0 the width of the first; when
\* 1 to 3 files match, the remaining slots hold the empty image.
C12_VariantExtraction ==
    img.pc = "done" =>
       LET m == ImgMatched
           k == IF Len(m) < NumSizes THEN Len(m) ELSE NumSizes
       IN /\ img.n = k
          /\ \A j \in 1..k :
                img.slots[j] =
                   ImageFromUrl(m[j], IF j = 1 THEN One
                                      ELSE Ratio(m[1].width, m[j].width))
          /\ k >= 1 => \A j \in (k + 1)..NumSizes : img.slots[j] = EmptyImage

\* C20: largest-size resolution.  The returned triad is (slot 0, slot 1, L),
\* L being slot 3 when four files matched and slot 2 otherwise; L is a real
\* image iff at least three files matched, and the empty image when one or
\* two matched.
C20_LargestSize ==
    img.pc = "done" =>
       /\ img.n >= 1 =>
             img.out = [image1 |-> img.slots[1], image2 |-> img.slots[2],
                        image3 |-> IF img.n = NumSizes
                                   THEN img.slots[4] ELSE img.slots[3]]
       /\ ~img.out.image3.empty <=> img.n >= 3
       /\ img.n \in {1, 2} => img.out.image3 = EmptyImage

\* C20 witness: exactly three files matched, the 4x slot is the empty image
\* and the largest image returned is the 3x slot.
C20_Witness ==
    /\ img.pc = "done" /\ img.n = 3
    /\ img.slots[4] = EmptyImage
    /\ ~img.slots[3].empty
    /\ img.out.image3 = img.slots[3]

\* C13: visibility policy.  An entry whose metadata is absent, or that is
\* unlisted while showUnlisted is off, or that lacks the PERSONAL tag in a
\* Personal set, or that is flagged disallowed, is never inserted by
\* parseEmotes or addEmote; parseEmotes skips it and still handles the
\* entries after it: every handled entry that the policy lets through and
\* that has images is in the map being built.
C13_VisibilityPolicy ==
    \A w \in Writers :
       LET l == wl[w]
           policyRejects(i) ==
              \/ l.batch[i].data = NoData
              \/ ~l.batch[i].data.listed /\ ~l.shows[i]
              \/ l.kind = "KPersonal" /\ ~l.batch[i].data.personal
              \/ l.batch[i].data.disallowed
       IN /\ l.pc \in {"add_copy", "add_set"} => ~policyRejects(1)
          /\ l.pc \in {"parse", "add_set"} =>
                \A i \in 1..Len(l.shows) :
                   /\ i \in l.took => ~policyRejects(i)
                   /\ i \in l.took => l.batch[i].name \in DOMAIN l.umap
                   /\ (~policyRejects(i)
                         /\ NumMatched(l.batch[i].data.files, settings.allowAvif) > 0)
                      => i \in l.took

\* C13 witness: a build of a Personal set has handled both entries of its
\* batch; the first lacks the PERSONAL tag and was skipped, the second was
\* inserted.
C13_Witness ==
    LET l == wl["w1"] IN
    /\ l.pc = "parse" /\ l.kind = "KPersonal"
    /\ Len(l.batch) = 2 /\ l.idx = 3
    /\ l.batch[1].data # NoData
    /\ l.batch[1].data.listed /\ ~l.batch[1].data.disallowed
    /\ ~l.batch[1].data.personal
    /\ l.took = {2}
    /\ DOMAIN l.umap = {l.batch[2].name}

\* C14: serialized writers lose no edit.  With one writer at a time on the
\* cell and the reader interleaved at will, the cell holds the map of the
\* writer's call from its start to its set(); the map a call copies is the
\* map its set() replaces; and the map it publishes is that map with exactly
\* the call's edit applied (an insert, an erase and an insert, or an erase).
\* A call that returns "no change" leaves the cell as it was.
C14_SerializedEdits ==
    \A w \in Writers :
       LET l   == wl[w]
           pub == maps[l.retCell]
       IN /\ l.pc # "idle" => cells[l.cell] = l.callCell
          /\ l.pc \in {"add_set", "upd_set", "rem_set"} =>
                l.base = maps[l.callCell]
          /\ (l.pc = "idle" /\ l.outcome = "nochange") =>
                /\ cells[l.cell] = l.callCell
                /\ l.sets = 0
          /\ (l.pc = "idle" /\ l.outcome = "applied") =>
                /\ cells[l.cell] = l.retCell
                /\ l.base = l.prev
                /\ l.op = "add" =>
                      /\ l.retVal.name \in DOMAIN pub
                      /\ recs[pub[l.retVal.name]] = l.retVal
                      /\ pub = MapPut(l.prev, l.retVal.name, pub[l.retVal.name])
                /\ l.op = "update" =>
                      /\ l.retVal.name \in DOMAIN pub
                      /\ recs[pub[l.retVal.name]] = l.retVal
                      /\ pub = MapPut(MapErase(l.prev, l.oldVal.name),
                                      l.retVal.name, pub[l.retVal.name])
                /\ l.op = "remove" =>
                      /\ l.oldKey \in DOMAIN l.prev
                      /\ pub = MapErase(l.prev, l.oldKey)

\* C14 witness: the third call of a sequence, an update, has been applied
\* to a collection of two records while the reader held the snapshot
\* published before it.
C14_Witness ==
    LET l == wl["w1"] IN
    /\ l.pc = "idle" /\ l.op = "update" /\ l.outcome = "applied"
    /\ Cardinality(DOMAIN l.prev) = 2
    /\ rd.snap = l.callCell
    /\ rd.snap # cells["c1"]
    /\ maps[cells["c1"]] # maps[rd.snap]

\* C15: the check-then-insert of the intern cache is atomic.  However the
\* calls of concurrent builders interleave, no two distinct live instances
\* handed out by cachedOrMake carry the same identifier, and the cache entry
\* of an identifier is the live instance handed out for it.
C15_AtomicIntern ==
    /\ \A a \in DOMAIN recs : \A b \in DOMAIN recs :
          (tag[a].cached /\ tag[b].cached /\ recs[a].id = recs[b].id) => a = b
    /\ \A a \in DOMAIN recs : tag[a].cached => cache[recs[a].id] = a

\* C15 witness: two builders are under way at once, no cell holds a record
\* yet, and both have been handed the same instance for the same identifier.
C15_Witness ==
    /\ wl["w1"].pc = "parse" /\ wl["w2"].pc = "parse"
    /\ \A c \in Cells : maps[cells[c]] = EmptyMap
    /\ rd.snap = Null
    /\ wl["w1"].umap # EmptyMap
    /\ wl["w1"].umap = wl["w2"].umap

\* C16 as claimed: an addEmote, updateEmote or removeEmote that returns "no
\* change" has made no copy of the map.
C16_NoCopyOnNoChange ==
    \A w \in Writers :
       (wl[w].op \in {"add", "update", "remove"} /\ wl[w].outcome = "nochange")
          => ~wl[w].copied

\* C16 amended: a call that returns "no change" has made no copy of the map
\* when it is an addEmote turned away for absent metadata or by the
\* visibility policy, or an updateEmote whose lookup missed; it has copied
\* the map, and discarded the copy, when it is an addEmote whose record has
\* an empty primary image or a removeEmote whose lookup missed.
C16_NoChangeCopies ==
    \A w \in Writers :
       (wl[w].op \in {"add", "update", "remove"} /\ wl[w].outcome = "nochange")
          => (wl[w].copied <=>
                \/ wl[w].op = "add" /\ ~wl[w].rejected
                \/ wl[w].op = "remove")

\* C16 witness: a removeEmote whose lookup missed has returned "no change"
\* after copying a collection of at least one record, which is still the
\* one published.
C16_Witness ==
    LET l == wl["w1"] IN
    /\ l.pc = "idle" /\ l.op = "remove" /\ l.outcome = "nochange"
    /\ l.copied
    /\ l.base # EmptyMap
    /\ l.base = maps[cells["c1"]]

\* C17: update frame.  The replacement returned by a successful updateEmote
\* has the images, identifier, author, link and zero-width flag of the
\* record it replaces and the new display name; and the records of a
\* snapshot the reader holds are still what they were when it took it.
C17_UpdateFrame ==
    /\ \A w \in Writers :
          (wl[w].op = "update" /\ wl[w].outcome = "applied") =>
             /\ wl[w].retVal.images = wl[w].oldVal.images
             /\ wl[w].retVal.id = wl[w].oldVal.id
             /\ wl[w].retVal.author = wl[w].oldVal.author
             /\ wl[w].retVal.homePage = wl[w].oldVal.homePage
             /\ wl[w].retVal.zeroWidth = wl[w].oldVal.zeroWidth
             /\ wl[w].retVal.name = wl[w].name
    /\ rd.snap # Null =>
          \A k \in DOMAIN maps[rd.snap] : recs[maps[rd.snap][k]] = rd.vals[k]

\* C17 witness: the reader holds the snapshot in which a zero-width record
\* has its old name, an updateEmote has since renamed that record, and the
\* published map has the replacement under the new name.
C17_Witness ==
    LET l == wl["w1"] IN
    /\ l.pc = "idle" /\ l.op = "update" /\ l.outcome = "applied"
    /\ l.oldVal.zeroWidth
    /\ l.retVal.name # l.oldVal.name
    /\ rd.snap = l.callCell
    /\ l.oldVal.name \in DOMAIN rd.vals
    /\ rd.vals[l.oldVal.name] = l.oldVal
    /\ recs[maps[rd.snap][l.oldVal.name]].name = l.oldVal.name
    /\ l.oldVal.name \notin DOMAIN maps[cells["c1"]]
    /\ recs[maps[cells["c1"]][l.retVal.name]] = l.retVal

\* C18: updateEmote works on a single snapshot.  When updateEmote is about
\* to publish, the map it copied is the map in which it located the old
\* record, and the map it publishes is that map with the old key removed
\* and the replacement inserted.
C18_UpdateSingleSnapshot ==
    \A w \in Writers :
       LET l == wl[w] IN
       l.pc = "upd_set" =>
          /\ l.base = maps[l.oldMap]
          /\ UpdPublished(l) =
                MapPut(MapErase(maps[l.oldMap], l.oldKey), l.name, l.emote)

\* C19: key set after updateEmote.  After a successful updateEmote of the
\* record stored under key K to the name N, the keys of the published map
\* are the keys of the map it replaced without K and with N; the map has
\* one entry fewer when N differs from K and was a key already, and as many
\* entries as before otherwise.
C19_KeySetAfterUpdate ==
    \A w \in Writers :
       LET l   == wl[w]
           old == DOMAIN l.prev
           new == DOMAIN maps[l.retCell]
       IN (l.pc = "idle" /\ l.op = "update" /\ l.outcome = "applied"
             /\ cells[l.cell] = l.retCell) =>
             /\ new = (old \ {l.oldKey}) \cup {l.name}
             /\ Cardinality(new) =
                   IF l.name # l.oldKey /\ l.name \in old
                   THEN Cardinality(old) - 1 ELSE Cardinality(old)

\* C21: global reload.  A call of loadGlobalEmotes with global emotes
\* disabled sets global_ to the empty map and issues no request; a call with
\* global emotes enabled issues one request and leaves global_ alone; an
\* error callback leaves global_ and its map as they were; and global_ is
\* only ever replaced by a call with global emotes disabled or by the
\* success callback, once parseEmotes has handled the whole answer, with
\* the map it built.
C21_GlobalReload ==
    [][/\ (gl'.loads = gl.loads + 1 /\ ~settings.enableGlobal) =>
             /\ maps'[cells'[Global]] = EmptyMap
             /\ gl'.issued = gl.issued
             /\ gl'.inflight = gl.inflight
       /\ (gl'.loads = gl.loads + 1 /\ settings.enableGlobal) =>
             /\ cells'[Global] = cells[Global]
             /\ gl'.issued = gl.issued + 1
       /\ gl'.errors = gl.errors + 1 =>
             /\ cells'[Global] = cells[Global]
             /\ maps'[cells'[Global]] = maps[cells[Global]]
       /\ cells'[Global] # cells[Global] =>
             \/ gl'.loads = gl.loads + 1 /\ ~settings.enableGlobal
             \/ \E w \in Writers :
                   /\ wl[w].pc = "parse" /\ wl[w].kind = "KGlobal"
                   /\ wl[w].cell = Global
                   /\ wl[w].idx > Len(wl[w].batch)
                   /\ wl'[w].pc = "idle"
                   /\ maps'[cells'[Global]] = wl[w].umap
      ]_vars

\* C21 witness: a request has just failed after an earlier one had
\* succeeded; global_ still holds the two emotes published then.
C21_Witness ==
    /\ gl.last = "error"
    /\ gl.before = cells[Global]
    /\ Cardinality(DOMAIN maps[cells[Global]]) = 2
    /\ wl["w1"].pc = "idle" /\ wl["w1"].op = "build"
    /\ wl["w1"].retCell = cells[Global]

====
